---- MODULE Spec2Model ----
(***************************************************************************)
(* Event generation of DemoDataGen: main's validation of the               *)
(* configuration, EventGenerator.generateUserEvents and the per-user       *)
(* sequence generator it calls (determineEventType, updateContext,         *)
(* generateEventData), as a state machine with one step per loop           *)
(* iteration; and AnonymousUserService.filterAnonymousEvents.              *)
(*                                                                         *)
(* Random draws (faker) are nondeterministic choices.  Probabilities are   *)
(* percentages (0.3 is 30).  Times are whole seconds counted from the      *)
(* start of the 30 day window that ends at generation time: the source's   *)
(* millisecond literals are converted with Ms.  Identifiers (uuids) are    *)
(* tagged counters <<"uuid", n>>; the absent value is Undefined.           *)
(***************************************************************************)
EXTENDS Integers, Sequences, FiniteSets, TLC

VARIABLES
  config,              \* EventGenerator.config, set by the constructor
  userProfiles,        \* argument of generateUserEvents
  pc,                  \* position: "main", "rejected" in main before the
                       \* generator runs; "forEach", "loop", "anonFor",
                       \* "done" in the generator; "saved" after it
  profileIndex,        \* forEach index into userProfiles (1-based)
  anonymousUserCount,  \* drawn count of synthetic anonymous identities
  anonIndex,           \* i of the anonymous for-loop
  caller,              \* where generateUserEventSequence returns to
  profile,             \* profile argument of generateUserEventSequence
  eventCount,          \* eventCount of the running sequence
  i,                   \* loop index of the running sequence
  context,             \* EventGenerationContext of the running sequence
  seqEvents,           \* events array local to generateUserEventSequence
  events,              \* events array of generateUserEvents (the result)
  nextId,              \* number of uuids handed out so far
  filtered,            \* result of AnonymousUserService.filterAnonymousEvents
  heap,                \* the configuration objects, by reference
  configFile,          \* the file at ConfigurationService.configPath
  configService        \* ConfigurationService: this.config, this.environment

\* the variables of the generator and of the filter
generatorVars ==
  <<filtered, config, userProfiles, pc, profileIndex, anonymousUserCount,
    anonIndex, caller, profile, eventCount, i, context, seqEvents, events,
    nextId>>

vars == <<heap, configFile, configService, generatorVars>>

----------------------------------------------------------------------------
(* Bounds of the model *)

\* largest eventCountPerUser.max of a single-user run without session changes
MaxEvents == 5
\* largest eventCountPerUser.max of a single-user run with session changes
MaxSessionEvents == 3
\* largest (number of users) * eventCountPerUser.max of a multi-user run
MaxBatch == 4
\* largest number of users (profiles and synthetic identities) of a run
MaxUsers == 3
\* longest event list given to filterAnonymousEvents
MaxFilterEvents == 3

----------------------------------------------------------------------------
(* Values *)

Undefined == <<>>

Uuid(n) == <<"uuid", n>>

Country == "France"

\* milliseconds of the source as model time units (seconds)
Ms(n) == n \div 1000

\* length of the window of faker.date.recent({ days: 30 }), and generation time
RecentWindow == 30 * 86400
Now == RecentWindow

Max(a, b) == IF a > b THEN a ELSE b

RECURSIVE IndexOfFrom(_, _, _)
IndexOfFrom(s, x, k) ==
  IF k > Len(s) THEN 0 ELSE IF s[k] = x THEN k ELSE IndexOfFrom(s, x, k + 1)

\* 1-based index of the first occurrence of x in s, 0 when absent
\* (Array.prototype.indexOf, which is 0-based with -1 when absent)
IndexOf(s, x) == IndexOfFrom(s, x, 1)

----------------------------------------------------------------------------
(* Event types *)

FIRST_EVENTS == <<"page_view", "search">>

BROWSING_EVENTS ==
  <<"page_view", "search", "article_view", "video_view", "audio_listen",
    "ad_view", "ad_click", "email_open", "email_click", "richpush_open",
    "richpush_click">>

CART_EVENTS ==
  {"add_itemToCart", "remove_itemFromCart", "view_cart", "checkout",
   "transaction_complete"}

Range(s) == {s[k] : k \in 1..Len(s)}

\* the values of the type EventType
EventType ==
  {"page_view", "search", "article_view", "video_view", "audio_listen",
   "ad_view", "ad_click", "email_open", "email_click", "add_itemToCart",
   "remove_itemFromCart", "transaction_complete", "checkout", "view_cart",
   "richpush_open", "richpush_click"}

----------------------------------------------------------------------------
(* DataGenerationUtils: the random source *)

\* mutant: the draw compares with <=, so it can succeed at probability 0
generateRandomBoolean_ZeroCanHit(probability) ==
  IF probability >= 100 THEN {TRUE} ELSE BOOLEAN

\* faker.datatype.boolean({ probability }): never true at 0, always true at 1
generateRandomBoolean(probability) ==
  IF probability <= 0 THEN {FALSE}
  ELSE IF probability >= 100 THEN {TRUE}
  ELSE BOOLEAN

\* mutant: the upper end of the range is excluded
generateRandomInt_MaxExcluded(min, max) == min..(max - 1)

\* faker.number.int({ min, max }): any integer of the closed range
generateRandomInt(min, max) == min..max

\* the draws of generateRandomInt(1000, 300000) the model follows: both ends
\* in a sequence of up to MaxSessionEvents events, the upper end in a longer one
OffsetDraws(count) ==
  IF count <= MaxSessionEvents THEN {Ms(1000), Ms(300000)} ELSE {Ms(300000)}

\* faker.helpers.arrayElement(array): the model follows both ends of the array
generateRandomElement(array) == {array[1], array[Len(array)]}

\* faker.date.recent({ days: 30 }): between 30 days and 1 second before now;
\* the model follows both ends
generateRecentDate == {Now - RecentWindow, Now - Ms(1000)}

----------------------------------------------------------------------------
(* Configuration *)

\* DEFAULT_CONFIG.eventGeneration
DEFAULT_EVENT_GENERATION ==
  [sessionContinuationProbability |-> 70,
   addToCartProbability |-> 30,
   viewCartAfterAddProbability |-> 60,
   checkoutAfterViewCartProbability |-> 40,
   transactionAfterCheckoutProbability |-> 30,
   removeFromCartProbability |-> 20]

\* DEFAULT_CONFIG.userProfiles.mobileIdProbability
DEFAULT_MOBILE_ID_PROBABILITY == [registered |-> 30, anonymous |-> 40]

\* every step of the purchase funnel certain, no removal, one session
FunnelEventGeneration ==
  [sessionContinuationProbability |-> 100,
   addToCartProbability |-> 100,
   viewCartAfterAddProbability |-> 100,
   checkoutAfterViewCartProbability |-> 100,
   transactionAfterCheckoutProbability |-> 100,
   removeFromCartProbability |-> 0]

\* all cart-related probabilities 0
NoCartEventGeneration(sessionContinuation) ==
  [sessionContinuationProbability |-> sessionContinuation,
   addToCartProbability |-> 0,
   viewCartAfterAddProbability |-> 0,
   checkoutAfterViewCartProbability |-> 0,
   transactionAfterCheckoutProbability |-> 0,
   removeFromCartProbability |-> 0]

\* the add draw and the remove draw both certain, the cart never viewed
RemoveWinsEventGeneration ==
  [sessionContinuationProbability |-> 100,
   addToCartProbability |-> 100,
   viewCartAfterAddProbability |-> 0,
   checkoutAfterViewCartProbability |-> 0,
   transactionAfterCheckoutProbability |-> 0,
   removeFromCartProbability |-> 100]

EventGenerationConfigs ==
  {DEFAULT_EVENT_GENERATION,
   RemoveWinsEventGeneration,
   [DEFAULT_EVENT_GENERATION EXCEPT !.sessionContinuationProbability = 100],
   FunnelEventGeneration,
   NoCartEventGeneration(70),
   NoCartEventGeneration(100)}

\* the sections of Config that validateConfiguration and the generator read;
\* output and logging as in DEFAULT_CONFIG
MakeConfig(userCount, countMin, countMax, anonMin, anonMax, eventGeneration) ==
  [dataGeneration |->
     [userCount |-> userCount,
      eventCountPerUser |-> [min |-> countMin, max |-> countMax],
      anonymousUserCount |-> [min |-> anonMin, max |-> anonMax]],
   output |-> [format |-> "ndjson", directory |-> "output"],
   eventGeneration |-> eventGeneration,
   userProfiles |-> [registeredUserProbability |-> 70,
                     mobileIdProbability |-> DEFAULT_MOBILE_ID_PROBABILITY],
   logging |-> [level |-> "info"]]

\* the configuration of the funnel scenario: exactly 10 events for one user
FunnelConfig == MakeConfig(1, 10, 10, 0, 0, FunnelEventGeneration)

\* `value < 0 || value > 1` is an error
IsProbability(value) == ~(value < 0 \/ value > 100)

\* mutant: the probability check has no upper limit
IsValidConfig_NoUpperLimit(c) ==
  /\ ~(c.dataGeneration.userCount < 1)
  /\ ~(c.dataGeneration.eventCountPerUser.min < 1)
  /\ ~(c.dataGeneration.eventCountPerUser.max < c.dataGeneration.eventCountPerUser.min)
  /\ ~(c.dataGeneration.anonymousUserCount.min < 0)
  /\ ~(c.dataGeneration.anonymousUserCount.max < c.dataGeneration.anonymousUserCount.min)
  /\ \A f \in DOMAIN c.eventGeneration : ~(c.eventGeneration[f] < 0)
  /\ ~(c.userProfiles.registeredUserProbability < 0)
  /\ ~(c.userProfiles.mobileIdProbability.registered < 0)
  /\ ~(c.userProfiles.mobileIdProbability.anonymous < 0)
  /\ c.output.directory # ""
  /\ c.output.format \in {"ndjson", "json", "csv"}
  /\ c.logging.level \in {"debug", "info", "warn", "error"}

\* validateConfiguration(config).isValid: none of its checks pushes an error
IsValidConfig(c) ==
  /\ ~(c.dataGeneration.userCount < 1)
  /\ ~(c.dataGeneration.eventCountPerUser.min < 1)
  /\ ~(c.dataGeneration.eventCountPerUser.max < c.dataGeneration.eventCountPerUser.min)
  /\ ~(c.dataGeneration.anonymousUserCount.min < 0)
  /\ ~(c.dataGeneration.anonymousUserCount.max < c.dataGeneration.anonymousUserCount.min)
  /\ \A f \in DOMAIN c.eventGeneration : IsProbability(c.eventGeneration[f])
  /\ IsProbability(c.userProfiles.registeredUserProbability)
  /\ IsProbability(c.userProfiles.mobileIdProbability.registered)
  /\ IsProbability(c.userProfiles.mobileIdProbability.anonymous)
  /\ c.output.directory # ""
  /\ c.output.format \in {"ndjson", "json", "csv"}
  /\ c.logging.level \in {"debug", "info", "warn", "error"}

\* the errors of validateUserEvent(event) for a UserEvent: `!x` holds of the
\* absent userId and of an empty string, never of a Date; new Date() is taken
\* at generation time
validateUserEventErrors(event) ==
  (IF event.userId = Undefined THEN {"Event must have a userId"} ELSE {})
    \cup (IF event.eventType = "" THEN {"Event must have an eventType"} ELSE {})
    \cup (IF event.timestamp > Now
            THEN {"Event timestamp cannot be in the future"} ELSE {})
    \cup (IF event.country = "" THEN {"Event must have a country"} ELSE {})

validateUserEvent(event) ==
  [isValid |-> validateUserEventErrors(event) = {},
   errors |-> validateUserEventErrors(event)]

\* configurations with one defect each, made from a valid one
DefectiveConfigs ==
  LET base == MakeConfig(1, 1, 2, 0, 1, DEFAULT_EVENT_GENERATION)
      outside == {-1, 101}
  IN {[base EXCEPT !.dataGeneration.userCount = 0],
      [base EXCEPT !.dataGeneration.eventCountPerUser.min = 0],
      [base EXCEPT !.dataGeneration.eventCountPerUser = [min |-> 2, max |-> 1]],
      [base EXCEPT !.dataGeneration.anonymousUserCount.min = -1],
      [base EXCEPT !.dataGeneration.anonymousUserCount = [min |-> 1, max |-> 0]],
      [base EXCEPT !.output.directory = ""],
      [base EXCEPT !.output.format = "xml"],
      [base EXCEPT !.logging.level = "trace"]}
     \cup {[base EXCEPT !.eventGeneration[f] = v] :
             f \in DOMAIN base.eventGeneration, v \in outside}
     \cup {[base EXCEPT !.userProfiles.registeredUserProbability = v] : v \in outside}
     \cup {[base EXCEPT !.userProfiles.mobileIdProbability.registered = v] : v \in outside}
     \cup {[base EXCEPT !.userProfiles.mobileIdProbability.anonymous = v] : v \in outside}

----------------------------------------------------------------------------
(* Profiles *)

\* a profile as UserProfileService makes it from the k-th user; of the maidId
\* draws the model follows a registered profile with one, an anonymous without
InputProfile(k, profileType) ==
  [id |-> <<"user", k>>,
   profileType |-> profileType,
   cookieId |-> <<"cookie", k>>,
   maidId |-> IF profileType = "registered" THEN <<"maid", k>> ELSE Undefined]

ProfileLists(n) ==
  {[k \in 1..n |-> InputProfile(k, t[k])] :
     t \in [1..n -> {"registered", "anonymous"}]}

NoProfile == [id |-> Undefined, profileType |-> "none",
              cookieId |-> Undefined, maidId |-> Undefined]

NoContext == [hasAddedToCart |-> FALSE, hasViewedCart |-> FALSE,
              hasCheckedOut |-> FALSE, cartItems |-> 0,
              sessionId |-> Undefined, baseTimestamp |-> 0]

----------------------------------------------------------------------------
(* EventGenerator *)

\* `condition && generateRandomBoolean(probability)`: the draw is made only
\* when the condition holds; `hit` is the branch taken when both are true
Rule(condition, probability, hit, otherwise) ==
  IF condition
    THEN UNION {IF b THEN hit ELSE otherwise :
                  b \in generateRandomBoolean(probability)}
    ELSE otherwise

\* mutant: the transaction rule does not test hasCheckedOut
determineEventType_TransactionUnguarded(eg, ctx, eventIndex) ==
  IF eventIndex = 0 THEN generateRandomElement(FIRST_EVENTS)
  ELSE
    Rule(TRUE, eg.transactionAfterCheckoutProbability,
         {"transaction_complete"},
    IF ctx.hasCheckedOut THEN generateRandomElement(BROWSING_EVENTS)
    ELSE
    Rule(ctx.hasViewedCart, eg.checkoutAfterViewCartProbability,
         {"checkout"},
    Rule(ctx.hasAddedToCart, eg.viewCartAfterAddProbability,
         {"view_cart"},
    Rule(ctx.hasAddedToCart, eg.removeFromCartProbability,
         {"remove_itemFromCart"},
    Rule(TRUE, eg.addToCartProbability,
         {"add_itemToCart"},
    generateRandomElement(BROWSING_EVENTS))))))

\* mutant: the view_cart rule does not test hasAddedToCart
determineEventType_ViewCartUnguarded(eg, ctx, eventIndex) ==
  IF eventIndex = 0 THEN generateRandomElement(FIRST_EVENTS)
  ELSE
    Rule(ctx.hasCheckedOut, eg.transactionAfterCheckoutProbability,
         {"transaction_complete"},
    IF ctx.hasCheckedOut THEN generateRandomElement(BROWSING_EVENTS)
    ELSE
    Rule(ctx.hasViewedCart, eg.checkoutAfterViewCartProbability,
         {"checkout"},
    Rule(TRUE, eg.viewCartAfterAddProbability,
         {"view_cart"},
    Rule(ctx.hasAddedToCart, eg.removeFromCartProbability,
         {"remove_itemFromCart"},
    Rule(TRUE, eg.addToCartProbability,
         {"add_itemToCart"},
    generateRandomElement(BROWSING_EVENTS))))))

\* mutant: the first-event rule tests index 1 instead of index 0
determineEventType_FirstAtOne(eg, ctx, eventIndex) ==
  IF eventIndex = 1 THEN generateRandomElement(FIRST_EVENTS)
  ELSE
    Rule(ctx.hasCheckedOut, eg.transactionAfterCheckoutProbability,
         {"transaction_complete"},
    IF ctx.hasCheckedOut THEN generateRandomElement(BROWSING_EVENTS)
    ELSE
    Rule(ctx.hasViewedCart, eg.checkoutAfterViewCartProbability,
         {"checkout"},
    Rule(ctx.hasAddedToCart, eg.viewCartAfterAddProbability,
         {"view_cart"},
    Rule(ctx.hasAddedToCart, eg.removeFromCartProbability,
         {"remove_itemFromCart"},
    Rule(TRUE, eg.addToCartProbability,
         {"add_itemToCart"},
    generateRandomElement(BROWSING_EVENTS))))))

\* mutant: the two rules for a checked-out user are swapped, so browsing wins
determineEventType_BrowsingBeforeTransaction(eg, ctx, eventIndex) ==
  IF eventIndex = 0 THEN generateRandomElement(FIRST_EVENTS)
  ELSE
    IF ctx.hasCheckedOut THEN generateRandomElement(BROWSING_EVENTS)
    ELSE
    Rule(ctx.hasCheckedOut, eg.transactionAfterCheckoutProbability,
         {"transaction_complete"},
    Rule(ctx.hasViewedCart, eg.checkoutAfterViewCartProbability,
         {"checkout"},
    Rule(ctx.hasAddedToCart, eg.viewCartAfterAddProbability,
         {"view_cart"},
    Rule(ctx.hasAddedToCart, eg.removeFromCartProbability,
         {"remove_itemFromCart"},
    Rule(TRUE, eg.addToCartProbability,
         {"add_itemToCart"},
    generateRandomElement(BROWSING_EVENTS))))))

\* mutant: the add rule returns a name that is not an EventType
determineEventType_AddToCartName(eg, ctx, eventIndex) ==
  IF eventIndex = 0 THEN generateRandomElement(FIRST_EVENTS)
  ELSE
    Rule(ctx.hasCheckedOut, eg.transactionAfterCheckoutProbability,
         {"transaction_complete"},
    IF ctx.hasCheckedOut THEN generateRandomElement(BROWSING_EVENTS)
    ELSE
    Rule(ctx.hasViewedCart, eg.checkoutAfterViewCartProbability,
         {"checkout"},
    Rule(ctx.hasAddedToCart, eg.viewCartAfterAddProbability,
         {"view_cart"},
    Rule(ctx.hasAddedToCart, eg.removeFromCartProbability,
         {"remove_itemFromCart"},
    Rule(TRUE, eg.addToCartProbability,
         {"add_to_cart"},
    generateRandomElement(BROWSING_EVENTS))))))

\* mutant: the add rule is tested before the remove rule
determineEventType_AddBeforeRemove(eg, ctx, eventIndex) ==
  IF eventIndex = 0 THEN generateRandomElement(FIRST_EVENTS)
  ELSE
    Rule(ctx.hasCheckedOut, eg.transactionAfterCheckoutProbability,
         {"transaction_complete"},
    IF ctx.hasCheckedOut THEN generateRandomElement(BROWSING_EVENTS)
    ELSE
    Rule(ctx.hasViewedCart, eg.checkoutAfterViewCartProbability,
         {"checkout"},
    Rule(ctx.hasAddedToCart, eg.viewCartAfterAddProbability,
         {"view_cart"},
    Rule(TRUE, eg.addToCartProbability,
         {"add_itemToCart"},
    Rule(ctx.hasAddedToCart, eg.removeFromCartProbability,
         {"remove_itemFromCart"},
    generateRandomElement(BROWSING_EVENTS))))))

\* mutant: a checked-out user whose transaction draw fails falls through to
\* the cart rules
determineEventType_CheckedOutFallsThrough(eg, ctx, eventIndex) ==
  IF eventIndex = 0 THEN generateRandomElement(FIRST_EVENTS)
  ELSE
    Rule(ctx.hasCheckedOut, eg.transactionAfterCheckoutProbability,
         {"transaction_complete"},
    Rule(ctx.hasViewedCart, eg.checkoutAfterViewCartProbability,
         {"checkout"},
    Rule(ctx.hasAddedToCart, eg.viewCartAfterAddProbability,
         {"view_cart"},
    Rule(ctx.hasAddedToCart, eg.removeFromCartProbability,
         {"remove_itemFromCart"},
    Rule(TRUE, eg.addToCartProbability,
         {"add_itemToCart"},
    generateRandomElement(BROWSING_EVENTS))))))

\* the event types determineEventType can return
determineEventType(eg, ctx, eventIndex) ==
  IF eventIndex = 0 THEN generateRandomElement(FIRST_EVENTS)
  ELSE
    Rule(ctx.hasCheckedOut, eg.transactionAfterCheckoutProbability,
         {"transaction_complete"},
    IF ctx.hasCheckedOut THEN generateRandomElement(BROWSING_EVENTS)
    ELSE
    Rule(ctx.hasViewedCart, eg.checkoutAfterViewCartProbability,
         {"checkout"},
    Rule(ctx.hasAddedToCart, eg.viewCartAfterAddProbability,
         {"view_cart"},
    Rule(ctx.hasAddedToCart, eg.removeFromCartProbability,
         {"remove_itemFromCart"},
    Rule(TRUE, eg.addToCartProbability,
         {"add_itemToCart"},
    generateRandomElement(BROWSING_EVENTS))))))

\* mutant: the remove_itemFromCart case has no break and falls into view_cart
updateContext_RemoveFallsThrough(ctx, eventType) ==
  CASE eventType = "add_itemToCart" ->
         [ctx EXCEPT !.hasAddedToCart = TRUE, !.cartItems = @ + 1]
    [] eventType = "remove_itemFromCart" ->
         [ctx EXCEPT !.cartItems = Max(0, @ - 1), !.hasViewedCart = TRUE]
    [] eventType = "view_cart" -> [ctx EXCEPT !.hasViewedCart = TRUE]
    [] eventType = "checkout" -> [ctx EXCEPT !.hasCheckedOut = TRUE]
    [] OTHER -> ctx

\* mutant: the view_cart case sets hasCheckedOut instead of hasViewedCart
updateContext_ViewCartChecksOut(ctx, eventType) ==
  CASE eventType = "add_itemToCart" ->
         [ctx EXCEPT !.hasAddedToCart = TRUE, !.cartItems = @ + 1]
    [] eventType = "remove_itemFromCart" ->
         [ctx EXCEPT !.cartItems = Max(0, @ - 1)]
    [] eventType = "view_cart" -> [ctx EXCEPT !.hasCheckedOut = TRUE]
    [] eventType = "checkout" -> [ctx EXCEPT !.hasCheckedOut = TRUE]
    [] OTHER -> ctx

\* mutant: the removal decrements without the floor at 0
updateContext_NoFloor(ctx, eventType) ==
  CASE eventType = "add_itemToCart" ->
         [ctx EXCEPT !.hasAddedToCart = TRUE, !.cartItems = @ + 1]
    [] eventType = "remove_itemFromCart" ->
         [ctx EXCEPT !.cartItems = @ - 1]
    [] eventType = "view_cart" -> [ctx EXCEPT !.hasViewedCart = TRUE]
    [] eventType = "checkout" -> [ctx EXCEPT !.hasCheckedOut = TRUE]
    [] OTHER -> ctx

\* mutant: a completed transaction starts the cart cycle over
updateContext_TransactionResets(ctx, eventType) ==
  CASE eventType = "add_itemToCart" ->
         [ctx EXCEPT !.hasAddedToCart = TRUE, !.cartItems = @ + 1]
    [] eventType = "remove_itemFromCart" ->
         [ctx EXCEPT !.cartItems = Max(0, @ - 1)]
    [] eventType = "view_cart" -> [ctx EXCEPT !.hasViewedCart = TRUE]
    [] eventType = "checkout" -> [ctx EXCEPT !.hasCheckedOut = TRUE]
    [] eventType = "transaction_complete" ->
         [ctx EXCEPT !.hasAddedToCart = FALSE, !.hasViewedCart = FALSE,
                     !.hasCheckedOut = FALSE, !.cartItems = 0]
    [] OTHER -> ctx

\* the context after updateContext
updateContext(ctx, eventType) ==
  CASE eventType = "add_itemToCart" ->
         [ctx EXCEPT !.hasAddedToCart = TRUE, !.cartItems = @ + 1]
    [] eventType = "remove_itemFromCart" ->
         [ctx EXCEPT !.cartItems = Max(0, @ - 1)]
    [] eventType = "view_cart" -> [ctx EXCEPT !.hasViewedCart = TRUE]
    [] eventType = "checkout" -> [ctx EXCEPT !.hasCheckedOut = TRUE]
    [] OTHER -> ctx

\* the literal EventGenerator.generateEventData passes to
\* DataGenerationUtils.generateEventData for the event type, if it calls it
\* for a quantity
UtilsEventType(eventType) ==
  CASE eventType = "add_itemToCart" -> "add_itemtocart"
    [] eventType = "remove_itemFromCart" -> "remove_itemfromcart"
    [] OTHER -> "none"

\* the quantity DataGenerationUtils.generateEventData can return: additions
\* and removals share the case with faker.number.int({ min: 1, max: 3 }), of
\* which the model follows both ends
UtilsQuantities(utilsEventType) ==
  CASE utilsEventType \in {"add_itemtocart", "remove_itemfromcart"} -> {1, 3}
    [] OTHER -> {Undefined}

\* the quantities the model follows: all of the above for a removal in a
\* sequence of up to MaxSessionEvents events, the largest otherwise
QuantityDraws(count, eventType) ==
  LET all == UtilsQuantities(UtilsEventType(eventType))
  IN IF all = {Undefined} THEN all
     ELSE IF eventType = "remove_itemFromCart" /\ count <= MaxSessionEvents THEN all
     ELSE {CHOOSE q \in all : \A r \in all : r <= q}

\* mutant: the reported item count is one more than the cart holds
generateEventData_CountsOneMore(eventType, ctx, quantity) ==
  [sessionId |-> ctx.sessionId,
   itemCount |-> IF eventType \in {"view_cart", "checkout"}
                   THEN ctx.cartItems + 1 ELSE Undefined,
   quantity |-> IF eventType \in {"add_itemToCart", "remove_itemFromCart"}
                  THEN quantity ELSE Undefined]

\* the fields of the payload that depend on the context or on the event type;
\* quantity is the one drawn by DataGenerationUtils.generateEventData
generateEventData(eventType, ctx, quantity) ==
  [sessionId |-> ctx.sessionId,
   itemCount |-> IF eventType \in {"view_cart", "checkout"}
                   THEN ctx.cartItems ELSE Undefined,
   quantity |-> IF eventType \in {"add_itemToCart", "remove_itemFromCart"}
                  THEN quantity ELSE Undefined]

\* mutant: building the checkout payload empties the cart
contextAfterEventData_CheckoutEmptiesCart(eventType, ctx) ==
  IF eventType = "checkout" THEN [ctx EXCEPT !.cartItems = 0] ELSE ctx

\* the context object after generateEventData has run on it: the method reads
\* context.sessionId and context.cartItems and assigns to no field
contextAfterEventData(eventType, ctx) == ctx

\* mutant: userId is copied from the profile whatever its type
MakeEvent_AlwaysUserId(p, ctx, eventType, index, id, offset, quantity) ==
  [id |-> id,
   userId |-> p.id,
   cookieId |-> p.cookieId,
   maidId |-> p.maidId,
   eventType |-> eventType,
   eventData |-> generateEventData(eventType, ctx, quantity),
   timestamp |-> contextAfterEventData(eventType, ctx).baseTimestamp
                   + index * offset,
   country |-> Country]

\* the event built in the loop body; id and offset are the draws of
\* generateId() and generateRandomInt(1000, 300000)
MakeEvent(p, ctx, eventType, index, id, offset, quantity) ==
  [id |-> id,
   userId |-> IF p.profileType = "registered" THEN p.id ELSE Undefined,
   cookieId |-> p.cookieId,
   maidId |-> p.maidId,
   eventType |-> eventType,
   eventData |-> generateEventData(eventType, ctx, quantity),
   timestamp |-> contextAfterEventData(eventType, ctx).baseTimestamp
                   + index * offset,
   country |-> Country]

----------------------------------------------------------------------------
(* AnonymousUserService.  Strings are sequences of characters, so that     *)
(* toLowerCase and includes are computed as String.prototype defines them. *)

UpperCaseLetters ==
  <<"A", "B", "C", "D", "E", "F", "G", "H", "I", "J", "K", "L", "M", "N",
  "O", "P", "Q", "R", "S", "T", "U", "V", "W", "X", "Y", "Z">>

LowerCaseLetters ==
  <<"a", "b", "c", "d", "e", "f", "g", "h", "i", "j", "k", "l", "m", "n",
  "o", "p", "q", "r", "s", "t", "u", "v", "w", "x", "y", "z">>

\* String.prototype.toLowerCase
toLowerCase(string) ==
  [k \in 1..Len(string) |->
     IF \E n \in 1..Len(UpperCaseLetters) : UpperCaseLetters[n] = string[k]
       THEN LowerCaseLetters[CHOOSE n \in 1..Len(UpperCaseLetters) :
                               UpperCaseLetters[n] = string[k]]
       ELSE string[k]]

\* String.prototype.includes
includes(string, searchString) ==
  \E k \in 0..(Len(string) - Len(searchString)) :
    SubSeq(string, k + 1, k + Len(searchString)) = searchString

\* an event type as the string of its characters
Characters(eventType) ==
  CASE eventType = "page_view" ->
         <<"p", "a", "g", "e", "_", "v", "i", "e", "w">>
    [] eventType = "search" ->
         <<"s", "e", "a", "r", "c", "h">>
    [] eventType = "article_view" ->
         <<"a", "r", "t", "i", "c", "l", "e", "_", "v", "i", "e", "w">>
    [] eventType = "video_view" ->
         <<"v", "i", "d", "e", "o", "_", "v", "i", "e", "w">>
    [] eventType = "audio_listen" ->
         <<"a", "u", "d", "i", "o", "_", "l", "i", "s", "t", "e", "n">>
    [] eventType = "ad_view" ->
         <<"a", "d", "_", "v", "i", "e", "w">>
    [] eventType = "ad_click" ->
         <<"a", "d", "_", "c", "l", "i", "c", "k">>
    [] eventType = "email_open" ->
         <<"e", "m", "a", "i", "l", "_", "o", "p", "e", "n">>
    [] eventType = "email_click" ->
         <<"e", "m", "a", "i", "l", "_", "c", "l", "i", "c", "k">>
    [] eventType = "add_itemToCart" ->
         <<"a", "d", "d", "_", "i", "t", "e", "m", "T", "o", "C", "a", "r",
           "t">>
    [] eventType = "remove_itemFromCart" ->
         <<"r", "e", "m", "o", "v", "e", "_", "i", "t", "e", "m", "F", "r",
           "o", "m", "C", "a", "r", "t">>
    [] eventType = "transaction_complete" ->
         <<"t", "r", "a", "n", "s", "a", "c", "t", "i", "o", "n", "_", "c",
           "o", "m", "p", "l", "e", "t", "e">>
    [] eventType = "checkout" ->
         <<"c", "h", "e", "c", "k", "o", "u", "t">>
    [] eventType = "view_cart" ->
         <<"v", "i", "e", "w", "_", "c", "a", "r", "t">>
    [] eventType = "richpush_open" ->
         <<"r", "i", "c", "h", "p", "u", "s", "h", "_", "o", "p", "e",
           "n">>
    [] eventType = "richpush_click" ->
         <<"r", "i", "c", "h", "p", "u", "s", "h", "_", "c", "l", "i", "c",
           "k">>

NON_TRANSACTIONAL_EVENTS ==
  <<<<"p", "a", "g", "e", "_", "v", "i", "e", "w">>,
    <<"s", "e", "a", "r", "c", "h">>,
    <<"p", "r", "o", "d", "u", "c", "t", "_", "v", "i", "e", "w">>,
    <<"a", "d", "d", "_", "t", "o", "_", "c", "a", "r", "t">>,
    <<"r", "e", "m", "o", "v", "e", "_", "f", "r", "o", "m", "_", "c", "a",
      "r", "t">>,
    <<"e", "m", "a", "i", "l", "_", "o", "p", "e", "n">>,
    <<"e", "m", "a", "i", "l", "_", "c", "l", "i", "c", "k">>,
    <<"a", "d", "_", "v", "i", "e", "w">>,
    <<"a", "d", "_", "c", "l", "i", "c", "k">>,
    <<"r", "i", "c", "h", "p", "u", "s", "h", "_", "o", "p", "e", "n">>,
    <<"r", "i", "c", "h", "p", "u", "s", "h", "_", "c", "l", "i", "c",
      "k">>>>

TRANSACTIONAL_EVENTS ==
  <<<<"c", "h", "e", "c", "k", "o", "u", "t">>,
    <<"p", "u", "r", "c", "h", "a", "s", "e">>,
    <<"p", "a", "y", "m", "e", "n", "t">>,
    <<"o", "r", "d", "e", "r", "_", "c", "o", "n", "f", "i", "r", "m", "a",
      "t", "i", "o", "n">>,
    <<"s", "h", "i", "p", "p", "i", "n", "g", "_", "u", "p", "d", "a", "t",
      "e">>,
    <<"a", "c", "c", "o", "u", "n", "t", "_", "c", "r", "e", "a", "t", "i",
      "o", "n">>,
    <<"l", "o", "g", "i", "n">>,
    <<"l", "o", "g", "o", "u", "t">>>>

isAnonymousUser(p) == p.profileType = "anonymous"

\* the predicate of events.filter in filterAnonymousEvents
IsKeptForAnonymous(event) ==
  LET eventType == toLowerCase(Characters(event.eventType))
      isNonTransactional ==
        \E n \in 1..Len(NON_TRANSACTIONAL_EVENTS) :
          includes(eventType, NON_TRANSACTIONAL_EVENTS[n])
      isTransactional ==
        \E n \in 1..Len(TRANSACTIONAL_EVENTS) :
          includes(eventType, TRANSACTIONAL_EVENTS[n])
  IN isNonTransactional /\ ~isTransactional

filterAnonymousEvents(list, p) ==
  IF ~isAnonymousUser(p) THEN list ELSE SelectSeq(list, IsKeptForAnonymous)

-----------------------------------------------------------------------------
(* ConfigurationService.  Configurations are objects: heap maps a reference *)
(* to the object's fields, and a field holding an object holds its         *)
(* reference.  A reference is <<owner, name>>: owner 0 is the module        *)
(* constant DEFAULT_CONFIG, owner n > 0 an object literal or spread built   *)
(* by the service.  The arrays and maps inside cdp are never assigned to    *)
(* and are kept as values.                                                  *)

\* DEFAULT_CONFIG.dataGeneration.eventCountPerUser
DEFAULT_EVENT_COUNT_PER_USER == [min |-> 10, max |-> 20]

DEFAULT_CONFIG ==
  [dataGeneration |->
     [country |-> "US", userCount |-> 20,
      eventCountPerUser |-> DEFAULT_EVENT_COUNT_PER_USER,
      anonymousUserCount |-> [min |-> 5, max |-> 10]],
   output |->
     [format |-> "ndjson", directory |-> "output", includeTimestamp |-> TRUE,
      compressOutput |-> FALSE],
   eventGeneration |-> DEFAULT_EVENT_GENERATION,
   userProfiles |->
     [registeredUserProbability |-> 70,
      mobileIdProbability |-> DEFAULT_MOBILE_ID_PROBABILITY],
   logging |-> [level |-> "info", showProgress |-> TRUE, showSummary |-> TRUE],
   graphql |->
     [enabled |-> FALSE, generateAllTypes |-> TRUE, recordsPerType |-> 5,
      includeFieldMappings |-> FALSE],
   cdp |->
     [compartmentIds |->
        <<"compartment-001", "compartment-002", "compartment-003">>,
      channelIds |-> <<"website", "mobile-app", "email", "social">>,
      compartmentDistribution |-> <<40, 35, 25>>,
      channelDistribution |-> <<50, 30, 15, 5>>,
      includeCDPMetadata |-> TRUE]]

NullRef == <<>>

ConfigRef(owner) == <<owner, "config">>

\* the objects of a configuration with the given content, all owned by owner
ConfigObjects(owner, content) ==
  (ConfigRef(owner) :>
     [dataGeneration |-> <<owner, "dataGeneration">>,
      output |-> <<owner, "output">>,
      eventGeneration |-> <<owner, "eventGeneration">>,
      userProfiles |-> <<owner, "userProfiles">>,
      logging |-> <<owner, "logging">>,
      graphql |-> <<owner, "graphql">>,
      cdp |-> <<owner, "cdp">>])
  @@ (<<owner, "dataGeneration">> :>
        [content.dataGeneration EXCEPT
           !.eventCountPerUser = <<owner, "eventCountPerUser">>,
           !.anonymousUserCount = <<owner, "anonymousUserCount">>])
  @@ (<<owner, "eventCountPerUser">> :>
        content.dataGeneration.eventCountPerUser)
  @@ (<<owner, "anonymousUserCount">> :>
        content.dataGeneration.anonymousUserCount)
  @@ (<<owner, "output">> :> content.output)
  @@ (<<owner, "eventGeneration">> :> content.eventGeneration)
  @@ (<<owner, "userProfiles">> :>
        [content.userProfiles EXCEPT
           !.mobileIdProbability = <<owner, "mobileIdProbability">>])
  @@ (<<owner, "mobileIdProbability">> :>
        content.userProfiles.mobileIdProbability)
  @@ (<<owner, "logging">> :> content.logging)
  @@ (<<owner, "graphql">> :> content.graphql)
  @@ (<<owner, "cdp">> :> content.cdp)

\* the heap once the module types/config is loaded
ModuleHeap == ConfigObjects(0, DEFAULT_CONFIG)

\* the content of the configuration object c: what JSON.stringify writes
ContentOf(h, c) ==
  LET dataGeneration == h[h[c].dataGeneration]
      profiles == h[h[c].userProfiles]
  IN [dataGeneration |->
        [dataGeneration EXCEPT
           !.eventCountPerUser = h[@], !.anonymousUserCount = h[@]],
      output |-> h[h[c].output],
      eventGeneration |-> h[h[c].eventGeneration],
      userProfiles |-> [profiles EXCEPT !.mobileIdProbability = h[@]],
      logging |-> h[h[c].logging],
      graphql |-> h[h[c].graphql],
      cdp |-> h[h[c].cdp]]

\* the objects reachable from the configuration object c
Reachable(h, c) ==
  {c} \cup {h[c][f] : f \in DOMAIN h[c]}
      \cup {h[h[c].dataGeneration].eventCountPerUser,
            h[h[c].dataGeneration].anonymousUserCount,
            h[h[c].userProfiles].mobileIdProbability}

\* the heap without the objects nothing refers to any more
Collect(h, c) ==
  LET live == Reachable(h, ConfigRef(0))
                \cup (IF c = NullRef THEN {} ELSE Reachable(h, c))
  IN [r \in live |-> h[r]]

\* an owner number no object of the heap carries
FreshOwner(h) ==
  CHOOSE n \in 1..(Cardinality(DOMAIN h) + 1) :
    /\ \A r \in DOMAIN h : r[1] # n
    /\ \A m \in 1..(n - 1) : \E r \in DOMAIN h : r[1] = m

\* { ...a, ...b }: the properties of a, overwritten by those of b
Spread(a, b) ==
  [f \in DOMAIN a \cup DOMAIN b |-> IF f \in DOMAIN b THEN b[f] ELSE a[f]]

\* object.name, an empty spread when the property is missing
Property(object, name) ==
  IF name \in DOMAIN object THEN object[name] ELSE <<>>

\* mergeConfig: the content of the object literal it returns
mergeConfig(defaults, userConfig) ==
  LET userData == Property(userConfig, "dataGeneration")
      userProfileSettings == Property(userConfig, "userProfiles")
  IN [dataGeneration |->
        Spread(Spread(defaults.dataGeneration, userData),
               [eventCountPerUser |->
                  Spread(defaults.dataGeneration.eventCountPerUser,
                         Property(userData, "eventCountPerUser")),
                anonymousUserCount |->
                  Spread(defaults.dataGeneration.anonymousUserCount,
                         Property(userData, "anonymousUserCount"))]),
      output |-> Spread(defaults.output, Property(userConfig, "output")),
      eventGeneration |->
        Spread(defaults.eventGeneration,
               Property(userConfig, "eventGeneration")),
      userProfiles |->
        Spread(Spread(defaults.userProfiles, userProfileSettings),
               [mobileIdProbability |->
                  Spread(defaults.userProfiles.mobileIdProbability,
                         Property(userProfileSettings,
                                  "mobileIdProbability"))]),
      logging |-> Spread(defaults.logging, Property(userConfig, "logging")),
      graphql |-> Spread(defaults.graphql, Property(userConfig, "graphql")),
      cdp |-> Spread(defaults.cdp, Property(userConfig, "cdp"))]

\* the values of NODE_ENV the model follows; "staging" takes the default case
Environments == {"production", "test", "development", "staging"}

\* applyEnvironmentOverrides(config): the heap after its assignments
applyEnvironmentOverrides(h, c, environment) ==
  CASE environment = "production" ->
         [h EXCEPT ![h[c].logging] =
                     [@ EXCEPT !.level = "warn", !.showProgress = FALSE,
                               !.showSummary = TRUE],
                   ![h[c].output] = [@ EXCEPT !.compressOutput = TRUE]]
    [] environment = "test" ->
         [h EXCEPT ![h[c].dataGeneration] = [@ EXCEPT !.userCount = 5],
                   ![h[h[c].dataGeneration].eventCountPerUser] =
                     [@ EXCEPT !.min = 2, !.max = 5],
                   ![h[c].logging] =
                     [@ EXCEPT !.level = "error", !.showProgress = FALSE,
                               !.showSummary = FALSE]]
    [] OTHER ->
         [h EXCEPT ![h[c].logging] =
                     [@ EXCEPT !.level = "info", !.showProgress = TRUE,
                               !.showSummary = TRUE]]

\* { ...source }: a new object with the properties of source, and its heap
ShallowCopy(h, source) ==
  LET copy == ConfigRef(FreshOwner(h))
  IN [heap |-> h @@ (copy :> h[source]), config |-> copy]

\* createDefaultConfig(): the returned object and the heap after the call
createDefaultConfig(h, environment) ==
  LET copied == ShallowCopy(h, ConfigRef(0))
  IN [copied EXCEPT
        !.heap = applyEnvironmentOverrides(@, copied.config, environment)]

\* the states of the file at configPath: missing, not JSON, or a configuration
ConfigFile(state, content) == [state |-> state, content |-> content]

\* loadConfiguration(): the returned object and the heap after the call
loadConfiguration(h, file, environment) ==
  IF file.state # "valid" THEN createDefaultConfig(h, environment)
  ELSE LET owner == FreshOwner(h)
           merged == mergeConfig(ContentOf(h, ConfigRef(0)), file.content)
       IN [heap |-> h @@ ConfigObjects(owner, merged),
           config |-> ConfigRef(owner)]

\* the partial configurations the model reads from the file
UserConfigs ==
  {[logging |-> [level |-> "debug"]],
   [dataGeneration |-> [userCount |-> 3, eventCountPerUser |-> [min |-> 1]],
    output |-> [compressOutput |-> TRUE]]}

\* the arguments of updateConfig the model follows
ConfigUpdates ==
  {[logging |-> [showProgress |-> FALSE]],
   [dataGeneration |-> [userCount |-> 7]]}

\* a run that constructs no ConfigurationService
NoConfigurationService ==
  /\ heap = ModuleHeap
  /\ configFile = ConfigFile("missing", <<>>)
  /\ configService = [config |-> NullRef, environment |-> "development"]

ConfigInit ==
  /\ heap = ModuleHeap
  /\ configFile \in {ConfigFile("missing", <<>>), ConfigFile("invalid", <<>>)}
                      \cup {ConfigFile("valid", u) : u \in UserConfigs}
  /\ \E environment \in Environments :
       configService = [config |-> NullRef, environment |-> environment]
  /\ config = MakeConfig(1, 1, 1, 0, 0, DEFAULT_EVENT_GENERATION)
  /\ userProfiles = <<>>
  /\ pc = "config"
  /\ profileIndex = 1
  /\ anonymousUserCount = 0
  /\ anonIndex = 0
  /\ caller = "none"
  /\ profile = NoProfile
  /\ eventCount = 0
  /\ i = 0
  /\ context = NoContext
  /\ seqEvents = <<>>
  /\ events = <<>>
  /\ nextId = 0
  /\ filtered = <<>>

\* the object literal as the service's new configuration
SetConfig(loaded) ==
  /\ configService' = [configService EXCEPT !.config = loaded.config]
  /\ heap' = Collect(loaded.heap, loaded.config)

\* new ConfigurationService()
Constructor ==
  /\ configService.config = NullRef
  /\ SetConfig(loadConfiguration(heap, configFile, configService.environment))
  /\ UNCHANGED <<configFile, generatorVars>>

\* reloadConfig()
ReloadConfig ==
  /\ configService.config # NullRef
  /\ SetConfig(loadConfiguration(heap, configFile, configService.environment))
  /\ UNCHANGED <<configFile, generatorVars>>

\* saveConfig(): the file holds the configuration, unless the write fails
SaveFile(content) ==
  configFile' \in {configFile, ConfigFile("valid", content)}

\* updateConfig(updates)
UpdateConfig ==
  /\ configService.config # NullRef
  /\ \E updates \in ConfigUpdates :
       LET owner == FreshOwner(heap)
           merged == mergeConfig(ContentOf(heap, configService.config),
                                 updates)
       IN /\ SetConfig([heap |-> heap @@ ConfigObjects(owner, merged),
                        config |-> ConfigRef(owner)])
          /\ SaveFile(merged)
  /\ UNCHANGED generatorVars

\* saveConfig()
SaveConfig ==
  /\ configService.config # NullRef
  /\ SaveFile(ContentOf(heap, configService.config))
  /\ configFile' # configFile
  /\ UNCHANGED <<heap, configService, generatorVars>>

\* getEnvironmentConfig(); the caller drops the returned object
GetEnvironmentConfig ==
  /\ configService.config # NullRef
  /\ LET copied == ShallowCopy(heap, configService.config)
         overridden == applyEnvironmentOverrides(copied.heap, copied.config,
                                                 configService.environment)
     IN heap' = Collect(overridden, configService.config)
  /\ UNCHANGED <<configService, configFile, generatorVars>>

ConfigNext ==
  \/ Constructor
  \/ ReloadConfig
  \/ UpdateConfig
  \/ SaveConfig
  \/ GetEnvironmentConfig

ConfigSpec == ConfigInit /\ [][ConfigNext]_vars

----------------------------------------------------------------------------
(* Initial states: the loaded configuration, and the profiles main makes    *)
(* for its userCount users                                                 *)

Users(c, profiles) == Len(profiles) + c.dataGeneration.anonymousUserCount.max

\* the inputs the model follows
InBounds(c, profiles) ==
  LET count == c.dataGeneration.eventCountPerUser
      eg == c.eventGeneration
      defaultOneSession == [DEFAULT_EVENT_GENERATION
                        EXCEPT !.sessionContinuationProbability = 100]
      oneProfile == Len(profiles) = 1 /\ Users(c, profiles) = 1
  IN \* the funnel scenario, for one registered user
     \/ c = FunnelConfig /\ profiles = <<InputProfile(1, "registered")>>
     \* one user, one session, every rule open, an exact event count
     \/ /\ oneProfile
        /\ eg = defaultOneSession
        /\ count.min = count.max /\ count.max <= MaxEvents
     \* one user, the other configurations
     \/ /\ oneProfile
        /\ eg \notin {defaultOneSession, FunnelEventGeneration}
        /\ count.max <= MaxSessionEvents
     \* several users: profiles and synthetic anonymous identities, an exact
     \* event count
     \/ /\ Users(c, profiles) >= 2 /\ Users(c, profiles) <= MaxUsers
        /\ eg = defaultOneSession
        /\ count.min = count.max /\ Users(c, profiles) * count.max <= MaxBatch

Init ==
  /\ \/ \E n \in 1..MaxBatch, cmax \in 1..Max(MaxEvents, 10),
           amax \in 0..MaxBatch, eg \in EventGenerationConfigs :
          \E cmin \in {1, cmax}, amin \in {0, amax} :
            /\ config = MakeConfig(n, cmin, cmax, amin, amax, eg)
            /\ userProfiles \in ProfileLists(n)
            /\ InBounds(config, userProfiles)
     \/ /\ config \in DefectiveConfigs
        /\ userProfiles \in ProfileLists(config.dataGeneration.userCount)
  /\ pc = "main"
  /\ profileIndex = 1
  /\ anonymousUserCount = 0
  /\ anonIndex = 0
  /\ caller = "none"
  /\ profile = NoProfile
  /\ eventCount = 0
  /\ i = 0
  /\ context = NoContext
  /\ seqEvents = <<>>
  /\ events = <<>>
  /\ nextId = 0
  /\ filtered = <<>>
  /\ NoConfigurationService

----------------------------------------------------------------------------
(* main *)

\* validate the configuration: return on an error, go on to generate otherwise
ValidateConfiguration ==
  /\ pc = "main"
  /\ pc' = IF IsValidConfig(config) THEN "forEach" ELSE "rejected"
  /\ UNCHANGED <<heap, configFile, configService, filtered, config, userProfiles, profileIndex, anonymousUserCount,
                 anonIndex, caller, profile, eventCount, i, context, seqEvents,
                 events, nextId>>

\* fileService.saveDataToFiles(userProfiles, events, country)
SaveDataToFiles ==
  /\ pc = "done"
  /\ pc' = "saved"
  /\ UNCHANGED <<heap, configFile, configService, filtered, config, userProfiles, profileIndex, anonymousUserCount,
                 anonIndex, caller, profile, eventCount, i, context, seqEvents,
                 events, nextId>>

----------------------------------------------------------------------------
(* generateUserEventSequence *)

\* mutant: one context object is shared by all users, only the session is new
EnterSequenceAt_SharedContext(p, from, ids) ==
  /\ \E n \in generateRandomInt(config.dataGeneration.eventCountPerUser.min,
                                config.dataGeneration.eventCountPerUser.max),
        base \in generateRecentDate :
       /\ eventCount' = n
       /\ context' = [context EXCEPT !.sessionId = Uuid(ids + 1),
                                     !.baseTimestamp = base]
  /\ profile' = p
  /\ caller' = from
  /\ seqEvents' = <<>>
  /\ i' = 0
  /\ pc' = "loop"

\* entry: draw the event count and initialise the context
EnterSequenceAt(p, from, ids) ==
  /\ \E n \in generateRandomInt(config.dataGeneration.eventCountPerUser.min,
                                config.dataGeneration.eventCountPerUser.max),
        base \in generateRecentDate :
       /\ eventCount' = n
       /\ context' = [hasAddedToCart |-> FALSE,
                      hasViewedCart |-> FALSE,
                      hasCheckedOut |-> FALSE,
                      cartItems |-> 0,
                      sessionId |-> Uuid(ids + 1),
                      baseTimestamp |-> base]
  /\ profile' = p
  /\ caller' = from
  /\ seqEvents' = <<>>
  /\ i' = 0
  /\ pc' = "loop"

\* mutant: a new session gets a new anchor but keeps the sessionId
startNewSession_AnchorOnly(ctx, id, base) ==
  [ctx EXCEPT !.baseTimestamp = base]

\* the two assignments of the session change
startNewSession(ctx, id, base) ==
  [ctx EXCEPT !.sessionId = id, !.baseTimestamp = base]

\* one iteration of the for loop
LoopStep ==
  /\ pc = "loop"
  /\ i < eventCount
  /\ \E eventType \in determineEventType(config.eventGeneration, context, i),
        offset \in OffsetDraws(eventCount),
        newSession \in generateRandomBoolean(
                         100 - config.eventGeneration.sessionContinuationProbability),
        base \in generateRecentDate :
       \E quantity \in QuantityDraws(eventCount, eventType) :
         LET updated == updateContext(context, eventType)
             event == MakeEvent(profile, updated, eventType, i, Uuid(nextId + 1),
                                offset, quantity)
             pushed == contextAfterEventData(eventType, updated)
         IN /\ seqEvents' = Append(seqEvents, event)
            /\ IF i > 0 /\ newSession
                 THEN /\ context' = startNewSession(pushed, Uuid(nextId + 2), base)
                      /\ nextId' = nextId + 2
                 ELSE /\ context' = pushed
                      /\ nextId' = nextId + 1
                      \* no recent date is drawn
                      /\ base = Now - RecentWindow
  /\ i' = i + 1
  /\ UNCHANGED <<heap, configFile, configService, filtered, config, userProfiles, pc, profileIndex,
                 anonymousUserCount, anonIndex, caller, profile, eventCount,
                 events>>

\* mutant: the loop is left only once i has passed eventCount, which the
\* loop body never lets happen
LoopExit_PastCount ==
  /\ pc = "loop"
  /\ i > eventCount
  /\ events' = events \o seqEvents
  /\ pc' = caller
  /\ IF caller = "forEach"
       THEN profileIndex' = profileIndex + 1 /\ UNCHANGED anonIndex
       ELSE anonIndex' = anonIndex + 1 /\ UNCHANGED profileIndex
  /\ UNCHANGED <<heap, configFile, configService, filtered, config, userProfiles, anonymousUserCount, caller, profile,
                 eventCount, i, context, seqEvents, nextId>>

\* return events: the caller pushes them and moves on
LoopExit ==
  /\ pc = "loop"
  /\ i >= eventCount
  /\ events' = events \o seqEvents
  /\ pc' = caller
  /\ IF caller = "forEach"
       THEN profileIndex' = profileIndex + 1 /\ UNCHANGED anonIndex
       ELSE anonIndex' = anonIndex + 1 /\ UNCHANGED profileIndex
  /\ UNCHANGED <<heap, configFile, configService, filtered, config, userProfiles, anonymousUserCount, caller, profile,
                 eventCount, i, context, seqEvents, nextId>>

----------------------------------------------------------------------------
(* generateUserEvents *)

\* userProfiles.forEach: the call for the next profile
ForEachProfile ==
  /\ pc = "forEach"
  /\ profileIndex <= Len(userProfiles)
  /\ EnterSequenceAt(userProfiles[profileIndex], "forEach", nextId)
  /\ nextId' = nextId + 1
  /\ UNCHANGED <<heap, configFile, configService, filtered, config, userProfiles, profileIndex, anonymousUserCount,
                 anonIndex, events>>

\* after the forEach: draw the number of synthetic anonymous identities
DrawAnonymousUserCount ==
  /\ pc = "forEach"
  /\ profileIndex > Len(userProfiles)
  /\ anonymousUserCount' \in
       generateRandomInt(config.dataGeneration.anonymousUserCount.min,
                         config.dataGeneration.anonymousUserCount.max)
  /\ anonIndex' = 0
  /\ pc' = "anonFor"
  /\ UNCHANGED <<heap, configFile, configService, filtered, config, userProfiles, profileIndex, caller, profile,
                 eventCount, i, context, seqEvents, events, nextId>>

\* one iteration of the anonymous for loop: build the profile, make the call
AnonymousUser ==
  /\ pc = "anonFor"
  /\ anonIndex < anonymousUserCount
  /\ \E withMaid \in generateRandomBoolean(
                       config.userProfiles.mobileIdProbability.anonymous) :
       LET anonymousProfile ==
             [id |-> Uuid(nextId + 3),
              profileType |-> "anonymous",
              cookieId |-> Uuid(nextId + 1),
              maidId |-> IF withMaid THEN Uuid(nextId + 2) ELSE Undefined]
       IN EnterSequenceAt(anonymousProfile, "anonFor", nextId + 3)
  /\ nextId' = nextId + 4
  /\ UNCHANGED <<heap, configFile, configService, filtered, config, userProfiles, profileIndex, anonymousUserCount,
                 anonIndex, events>>

\* return events
Return ==
  /\ pc = "anonFor"
  /\ anonIndex >= anonymousUserCount
  /\ pc' = "done"
  /\ UNCHANGED <<heap, configFile, configService, filtered, config, userProfiles, profileIndex, anonymousUserCount,
                 anonIndex, caller, profile, eventCount, i, context, seqEvents,
                 events, nextId>>

Next ==
  \/ ValidateConfiguration
  \/ ForEachProfile
  \/ LoopStep
  \/ LoopExit
  \/ DrawAnonymousUserCount
  \/ AnonymousUser
  \/ Return
  \/ SaveDataToFiles

Spec == Init /\ [][Next]_vars

\* main runs on one thread from its first statement to its last without
\* waiting for anything: a step that can be taken is taken
FairSpec == Spec /\ WF_vars(Next)

----------------------------------------------------------------------------
(* filterAnonymousEvents on its own: any list of events of one profile *)

\* the events of profile p with the given types, as the generator builds them
EventList(p, types) ==
  [k \in 1..Len(types) |->
     MakeEvent(p, [NoContext EXCEPT !.sessionId = Uuid(0)], types[k], k - 1,
               Uuid(k), Ms(1000),
               IF types[k] \in {"add_itemToCart", "remove_itemFromCart"}
                 THEN 1 ELSE Undefined)]

FilterInit ==
  /\ config = MakeConfig(1, 1, MaxFilterEvents, 0, 0, DEFAULT_EVENT_GENERATION)
  /\ userProfiles \in ProfileLists(1)
  /\ profile = userProfiles[1]
  /\ \E n \in 0..MaxFilterEvents :
       \E types \in [1..n -> EventType] : events = EventList(profile, types)
  /\ pc = "filter"
  /\ filtered = <<>>
  /\ profileIndex = 1
  /\ anonymousUserCount = 0
  /\ anonIndex = 0
  /\ caller = "none"
  /\ eventCount = 0
  /\ i = 0
  /\ context = NoContext
  /\ seqEvents = <<>>
  /\ nextId = Len(events)
  /\ NoConfigurationService

\* the call filterAnonymousEvents(events, profile)
FilterAnonymousEvents ==
  /\ pc = "filter"
  /\ filtered' = filterAnonymousEvents(events, profile)
  /\ pc' = "filtered"
  /\ UNCHANGED <<heap, configFile, configService, config, userProfiles, profileIndex, anonymousUserCount,
                 anonIndex, caller, profile, eventCount, i, context, seqEvents,
                 events, nextId>>

FilterNext == FilterAnonymousEvents

FilterSpec == FilterInit /\ [][FilterNext]_vars

----------------------------------------------------------------------------
(* Properties.  seqEvents is the sequence generated for the current user:  *)
(* the part built so far while pc = "loop", the whole of it afterwards.    *)

EventTypes(seq) == [k \in 1..Len(seq) |-> seq[k].eventType]

Contains(seq, eventType) == IndexOf(EventTypes(seq), eventType) # 0

\* x occurs in seq, and first occurs strictly before the first occurrence of y
FirstBefore(seq, x, y) ==
  /\ Contains(seq, x)
  /\ IndexOf(EventTypes(seq), x) < IndexOf(EventTypes(seq), y)

\* this step appends an event of the given type to the user's sequence
Emits(eventType) ==
  /\ Len(seqEvents') = Len(seqEvents) + 1
  /\ seqEvents'[Len(seqEvents')].eventType = eventType

\* a sequence has been generated to its end
SequenceReturned == pc # "loop" /\ caller # "none"

\* C1: a sequence that contains transaction_complete contains a checkout
\* strictly before its first transaction_complete, and a step emits
\* transaction_complete only when hasCheckedOut is already true.
C1_TransactionAfterCheckout ==
  /\ [](Contains(seqEvents, "transaction_complete")
          => FirstBefore(seqEvents, "checkout", "transaction_complete"))
  /\ [][Emits("transaction_complete") => context.hasCheckedOut]_vars

C1_Witness ==
  /\ Contains(seqEvents, "transaction_complete")
  /\ config.eventGeneration = [DEFAULT_EVENT_GENERATION
                                 EXCEPT !.sessionContinuationProbability = 100]

\* C2: a sequence that contains checkout contains a view_cart strictly before
\* its first checkout.
C2_CheckoutAfterViewCart ==
  Contains(seqEvents, "checkout") => FirstBefore(seqEvents, "view_cart", "checkout")

C2_Witness ==
  /\ Contains(seqEvents, "checkout")
  /\ Contains(seqEvents, "remove_itemFromCart")

\* C3: a sequence that contains view_cart contains an add_itemToCart strictly
\* before its first view_cart.
C3_ViewCartAfterAdd ==
  Contains(seqEvents, "view_cart")
    => FirstBefore(seqEvents, "add_itemToCart", "view_cart")

C3_Witness ==
  /\ Contains(seqEvents, "view_cart")
  /\ ~Contains(seqEvents, "checkout")
  /\ SequenceReturned

\* C4: the first event of every sequence is a page_view or a search.
C4_FirstEventBrowse ==
  Len(seqEvents) >= 1 => seqEvents[1].eventType \in {"page_view", "search"}

C4_Witness ==
  /\ Len(seqEvents) >= 2
  /\ seqEvents[1].eventType = "search"
  /\ seqEvents[2].eventType = "add_itemToCart"

\* C5: within one user's sequence the timestamps never decrease from one
\* event to the next.
C5_TimestampsNonDecreasing ==
  \A k \in 1..(Len(seqEvents) - 1) :
    seqEvents[k].timestamp <= seqEvents[k + 1].timestamp

\* C6 as stated: under the funnel configuration the sequence of the registered
\* user opens (page_view or search), add_itemToCart, view_cart, checkout,
\* transaction_complete, and the remaining 5 events are passive browsing.
C6_FunnelThenBrowsing ==
  config = FunnelConfig =>
    /\ SequenceReturned => Len(seqEvents) = 10
    /\ \A k \in 1..Len(seqEvents) :
         /\ k = 1 => seqEvents[k].eventType \in {"page_view", "search"}
         /\ k = 2 => seqEvents[k].eventType = "add_itemToCart"
         /\ k = 3 => seqEvents[k].eventType = "view_cart"
         /\ k = 4 => seqEvents[k].eventType = "checkout"
         /\ k = 5 => seqEvents[k].eventType = "transaction_complete"
         /\ k > 5 => seqEvents[k].eventType \in Range(BROWSING_EVENTS)

\* C6 amended: the same opening, and every one of the remaining 5 events is a
\* transaction_complete again.
C6_FunnelThenTransactions ==
  config = FunnelConfig =>
    /\ SequenceReturned => Len(seqEvents) = 10
    /\ \A k \in 1..Len(seqEvents) :
         /\ k = 1 => seqEvents[k].eventType \in {"page_view", "search"}
         /\ k = 2 => seqEvents[k].eventType = "add_itemToCart"
         /\ k = 3 => seqEvents[k].eventType = "view_cart"
         /\ k = 4 => seqEvents[k].eventType = "checkout"
         /\ k >= 5 => seqEvents[k].eventType = "transaction_complete"

C6_Witness ==
  /\ config = FunnelConfig
  /\ SequenceReturned
  /\ Len(seqEvents) = 10
  /\ profile.profileType = "registered"

NoCartProbabilities(eg) ==
  /\ eg.addToCartProbability = 0
  /\ eg.viewCartAfterAddProbability = 0
  /\ eg.checkoutAfterViewCartProbability = 0
  /\ eg.transactionAfterCheckoutProbability = 0
  /\ eg.removeFromCartProbability = 0

\* C7: with all cart-related probabilities 0 every generated event is a
\* passive-browsing event: none is add_itemToCart, view_cart, checkout,
\* remove_itemFromCart or transaction_complete.
C7_NoCartEvents ==
  NoCartProbabilities(config.eventGeneration) =>
    \A k \in 1..Len(seqEvents) :
      /\ seqEvents[k].eventType \in Range(BROWSING_EVENTS)
      /\ seqEvents[k].eventType \notin CART_EVENTS

C7_Witness ==
  /\ NoCartProbabilities(config.eventGeneration)
  /\ SequenceReturned
  /\ Len(seqEvents) = MaxSessionEvents

\* C8: the event count drawn for a user, and the number of events generated
\* for it, lie between the configured min and max; the draw, and with it the
\* call, is possible for every valid range, the range min = max included.
C8_EventCountInRange ==
  LET range == config.dataGeneration.eventCountPerUser
  IN /\ pc = "loop" =>
          /\ range.min <= eventCount /\ eventCount <= range.max
          /\ Len(seqEvents) = i /\ i <= eventCount
     /\ SequenceReturned =>
          /\ range.min <= Len(seqEvents) /\ Len(seqEvents) <= range.max
          /\ Len(seqEvents) = eventCount
     /\ (pc = "forEach" /\ profileIndex <= Len(userProfiles))
          => ENABLED ForEachProfile
     /\ (pc = "anonFor" /\ anonIndex < anonymousUserCount)
          => ENABLED AnonymousUser

C8_Witness ==
  /\ SequenceReturned
  /\ config.dataGeneration.eventCountPerUser.min
       = config.dataGeneration.eventCountPerUser.max
  /\ Len(seqEvents) = MaxEvents

\* the profile an event of the result came from, found by its cookieId
IsSourceOf(p, event) == p.cookieId = event.cookieId

\* C9: an event of a registered profile carries that profile's id as userId,
\* an event of an anonymous profile or of a synthetic anonymous identity
\* carries no userId, and every event carries the cookieId of its profile.
C9_UserIdOnlyForRegistered ==
  /\ \A k \in 1..Len(seqEvents) :
       /\ seqEvents[k].cookieId = profile.cookieId
       /\ seqEvents[k].cookieId # Undefined
       /\ profile.profileType = "registered" => seqEvents[k].userId = profile.id
       /\ profile.profileType = "anonymous" => seqEvents[k].userId = Undefined
  /\ \A k \in 1..Len(events) :
       \/ \E n \in 1..Len(userProfiles) :
            /\ IsSourceOf(userProfiles[n], events[k])
            /\ events[k].userId =
                 IF userProfiles[n].profileType = "registered"
                   THEN userProfiles[n].id ELSE Undefined
       \/ \* a synthetic anonymous identity
          /\ events[k].cookieId[1] = "uuid"
          /\ events[k].userId = Undefined

C9_Witness ==
  /\ pc = "done"
  /\ \E a, b, c \in 1..Len(events) :
       /\ events[a].userId # Undefined
       /\ events[b].userId = Undefined /\ events[b].cookieId[1] = "cookie"
       /\ events[c].userId = Undefined /\ events[c].cookieId[1] = "uuid"

\* C10: in every state of the context hasCheckedOut implies hasViewedCart and
\* hasViewedCart implies hasAddedToCart; a step makes hasViewedCart true only
\* when hasAddedToCart is true, and hasCheckedOut only when hasViewedCart is.
C10_FlagsOrdered ==
  /\ []((context.hasCheckedOut => context.hasViewedCart)
        /\ (context.hasViewedCart => context.hasAddedToCart))
  /\ [][/\ (~context.hasViewedCart /\ context'.hasViewedCart)
              => (context.hasAddedToCart /\ context'.hasAddedToCart)
        /\ (~context.hasCheckedOut /\ context'.hasCheckedOut)
              => (context.hasViewedCart /\ context'.hasViewedCart)]_vars

C10_Witness ==
  /\ context.hasCheckedOut
  /\ context.cartItems = 0
  /\ pc = "loop"

\* the number of events of the given type in seq
RECURSIVE CountOf(_, _)
CountOf(seq, eventType) ==
  IF seq = <<>> THEN 0
  ELSE (IF seq[1].eventType = eventType THEN 1 ELSE 0)
         + CountOf(Tail(seq), eventType)

\* C11: cartItems is never negative, whatever the order of additions and
\* removals, a removal from an empty cart included; the item count a
\* view_cart or checkout payload reports is never negative either.
C11_CartItemsNonNegative ==
  /\ context.cartItems >= 0
  /\ \A k \in 1..Len(seqEvents) :
       seqEvents[k].eventType \in {"view_cart", "checkout"}
         => seqEvents[k].eventData.itemCount >= 0

\* more removals than additions: a removal has met an empty cart
C11_Witness ==
  /\ CountOf(seqEvents, "remove_itemFromCart")
       > CountOf(seqEvents, "add_itemToCart")
  /\ context.cartItems = 0
  /\ seqEvents[Len(seqEvents)].eventType = "view_cart"

\* C12: building an event's payload leaves the context as it was: over a step
\* that emits an event the flags and cartItems change exactly as updateContext
\* prescribes for the emitted type, the payload carries the sessionId the
\* step started with, and sessionId and baseTimestamp stay or are both
\* replaced by the loop's own session change (only at an index above 0).
C12_EventDataKeepsContext ==
  [][Len(seqEvents') = Len(seqEvents) + 1 =>
       LET event == seqEvents'[Len(seqEvents')]
           expected == updateContext(context, event.eventType)
       IN /\ context'.hasAddedToCart = expected.hasAddedToCart
          /\ context'.hasViewedCart = expected.hasViewedCart
          /\ context'.hasCheckedOut = expected.hasCheckedOut
          /\ context'.cartItems = expected.cartItems
          /\ event.eventData.sessionId = context.sessionId
          /\ event.eventType \in {"view_cart", "checkout"}
               => event.eventData.itemCount = expected.cartItems
          /\ \/ /\ context'.sessionId = context.sessionId
                /\ context'.baseTimestamp = context.baseTimestamp
             \/ /\ i > 0
                /\ context'.sessionId = Uuid(nextId')
                /\ context'.baseTimestamp \in generateRecentDate]_vars

\* a checkout payload has just read a non-empty cart
C12_Witness ==
  /\ pc = "loop"
  /\ Len(seqEvents) >= 1
  /\ seqEvents[Len(seqEvents)].eventType = "checkout"
  /\ seqEvents[Len(seqEvents)].eventData.itemCount = context.cartItems
  /\ seqEvents[Len(seqEvents)].eventData.sessionId = context.sessionId
  /\ context.cartItems >= 1

\* the cookieIds of the synthetic anonymous identities in the result
SyntheticCookies ==
  {events[k].cookieId : k \in {j \in 1..Len(events) : events[j].cookieId[1] = "uuid"}}

\* C13: the result is the concatenation, in the order of generation, of one
\* sequence per supplied profile (in the order of the list) followed by one
\* sequence per synthetic anonymous identity, their number drawn from the
\* anonymousUserCount range; the events of one user are contiguous; every
\* user's sequence starts from a fresh context (flags false, cart empty).
C13_ConcatenationPerUser ==
  /\ \A a, b \in 1..Len(events) :
       a < b =>
         /\ events[a].id[2] < events[b].id[2]
         /\ events[b].cookieId[1] = "cookie" =>
              /\ events[a].cookieId[1] = "cookie"
              /\ events[a].cookieId[2] <= events[b].cookieId[2]
         /\ events[a].cookieId = events[b].cookieId =>
              \A k \in a..b : events[k].cookieId = events[a].cookieId
  /\ SequenceReturned =>
       /\ Len(events) >= Len(seqEvents)
       /\ SubSeq(events, Len(events) - Len(seqEvents) + 1, Len(events)) = seqEvents
  /\ pc = "loop" =>
       /\ \A k \in 1..Len(events) : events[k].cookieId # profile.cookieId
       /\ i = 0 =>
            /\ ~context.hasAddedToCart /\ ~context.hasViewedCart
            /\ ~context.hasCheckedOut /\ context.cartItems = 0
            /\ seqEvents = <<>>
  /\ pc \in {"anonFor", "done", "saved"} =>
       \A n \in 1..Len(userProfiles) :
         \E k \in 1..Len(events) : IsSourceOf(userProfiles[n], events[k])
  /\ pc \in {"done", "saved"} =>
       /\ Cardinality(SyntheticCookies) = anonymousUserCount
       /\ config.dataGeneration.anonymousUserCount.min <= anonymousUserCount
       /\ anonymousUserCount <= config.dataGeneration.anonymousUserCount.max

\* a profile and a synthetic identity, two events each; the user before the
\* last one left a cart behind
C13_Witness ==
  /\ pc = "done"
  /\ Len(userProfiles) >= 1
  /\ anonymousUserCount >= 1
  /\ Len(events) = MaxBatch
  /\ \E k \in 1..(Len(events) - 1) :
       /\ events[k].eventType = "add_itemToCart"
       /\ events[k + 1].cookieId # events[k].cookieId

\* the errors a configuration can have: a count below its floor, a range
\* with max below min, a probability outside [0, 1], no output directory, an
\* unknown output format or log level
HasConfigError(c) ==
  LET data == c.dataGeneration
      probabilities ==
        {c.eventGeneration[f] : f \in DOMAIN c.eventGeneration}
          \cup {c.userProfiles.registeredUserProbability,
                c.userProfiles.mobileIdProbability.registered,
                c.userProfiles.mobileIdProbability.anonymous}
  IN \/ data.userCount < 1
     \/ data.eventCountPerUser.min < 1
     \/ data.eventCountPerUser.max < data.eventCountPerUser.min
     \/ data.anonymousUserCount.min < 0
     \/ data.anonymousUserCount.max < data.anonymousUserCount.min
     \/ \E value \in probabilities : value < 0 \/ value > 100
     \/ c.output.directory = ""
     \/ c.output.format \notin {"ndjson", "json", "csv"}
     \/ c.logging.level \notin {"debug", "info", "warn", "error"}

\* C16: with a configuration that has an error main never enters the
\* generator, generates no event and saves nothing: the generator runs, and
\* the output is written, only for a configuration without errors.
C16_ValidatedBeforeUse ==
  HasConfigError(config) =>
    /\ pc \in {"main", "rejected"}
    /\ events = <<>> /\ seqEvents = <<>>
    /\ nextId = 0 /\ caller = "none"

\* rejected for a probability above 1, which the generator would have drawn with
C16_Witness ==
  /\ pc = "rejected"
  /\ config.eventGeneration.addToCartProbability > 100
  /\ config.dataGeneration.eventCountPerUser.min >= 1

\* C14: for every valid configuration and profile list generation comes to
\* its end: generateUserEvents returns; every per-user loop that has returned
\* ran exactly eventCount iterations and produced eventCount events.
C14_GenerationTerminates ==
  /\ IsValidConfig(config) => <>(pc = "done")
  /\ [](SequenceReturned => i = eventCount /\ Len(seqEvents) = eventCount)

\* returned for several users, one of them after a session change
C14_Witness ==
  /\ pc = "done"
  /\ Len(events) = MaxBatch
  /\ anonymousUserCount >= 1

\* C15: every event's timestamp lies within the last 30 days: not earlier
\* than 30 days before generation time and not later than generation time.
C15_TimestampWithinWindow ==
  \A k \in 1..Len(seqEvents) :
    /\ Now - RecentWindow <= seqEvents[k].timestamp
    /\ seqEvents[k].timestamp <= Now

\* C17: every event's eventType is one of the 16 values of EventType: the
\* type of every emitted event, every type the next step can return, and
\* every element of the arrays a type is drawn from.
C17_EventTypeEnumerated ==
  /\ Cardinality(EventType) = 16
  /\ \A k \in 1..Len(seqEvents) : seqEvents[k].eventType \in EventType
  /\ \A k \in 1..Len(events) : events[k].eventType \in EventType
  /\ (pc = "loop" /\ i < eventCount)
       => determineEventType(config.eventGeneration, context, i) \subseteq EventType
  /\ Range(FIRST_EVENTS) \cup Range(BROWSING_EVENTS) \subseteq EventType

\* a returned sequence with cart events and the last of the browsing events
C17_Witness ==
  /\ SequenceReturned
  /\ Contains(seqEvents, "richpush_click")
  /\ Contains(seqEvents, "remove_itemFromCart")
  /\ Contains(seqEvents, "view_cart")

\* the kinds of event the service lists as allowed for anonymous users: page
\* views, searches, add-to-cart, remove-from-cart, email, ad and rich-push
AllowedForAnonymous ==
  {"page_view", "search", "add_itemToCart", "remove_itemFromCart",
   "email_open", "email_click", "ad_view", "ad_click", "richpush_open",
   "richpush_click"}

IsAllowedForAnonymous(event) == event.eventType \in AllowedForAnonymous

\* C18: for an anonymous profile filterAnonymousEvents drops every checkout
\* and transaction_complete event and keeps every event of an allowed kind,
\* in the original order; for a registered profile it returns the list
\* unchanged.
C18_FilterKeepsAllowedEvents ==
  pc = "filtered" =>
    IF profile.profileType = "anonymous"
      THEN /\ \A k \in 1..Len(filtered) :
                filtered[k].eventType \notin {"checkout", "transaction_complete"}
           /\ SelectSeq(filtered, IsAllowedForAnonymous)
                = SelectSeq(events, IsAllowedForAnonymous)
      ELSE filtered = events

\* C19: the decision to start a new session at step i is taken before event i
\* is emitted, so event i carries the sessionId, and is timestamped from the
\* anchor, that the context holds once step i is done.
C19_SessionDecidedBeforeEvent ==
  (pc = "loop" /\ Len(seqEvents) >= 1) =>
    LET event == seqEvents[Len(seqEvents)]
    IN /\ event.eventData.sessionId = context.sessionId
       /\ \E offset \in OffsetDraws(eventCount) :
            event.timestamp = context.baseTimestamp + (i - 1) * offset

\* C20: within one session every event is later than the previous event of
\* the same session by at least the smallest offset, 1000 ms, as a timestamp
\* that adds one offset of [1000, 300000] ms per step is.
C20_SessionTimestampsAdvance ==
  \A k \in 1..(Len(seqEvents) - 1) :
    seqEvents[k].eventData.sessionId = seqEvents[k + 1].eventData.sessionId
      => seqEvents[k + 1].timestamp >= seqEvents[k].timestamp + Ms(1000)

\* C21: after the first checkout of a sequence only transaction_complete and
\* passive-browsing events follow: no add_itemToCart, remove_itemFromCart,
\* view_cart or second checkout; cartItems stays what the checkout reported.
C21_NothingButBrowsingAfterCheckout ==
  /\ \A k, m \in 1..Len(seqEvents) :
       (seqEvents[k].eventType = "checkout" /\ k < m) =>
         /\ seqEvents[m].eventType
              \notin {"add_itemToCart", "remove_itemFromCart", "view_cart", "checkout"}
         /\ seqEvents[m].eventType
              \in {"transaction_complete"} \cup Range(BROWSING_EVENTS)
  /\ CountOf(seqEvents, "checkout") <= 1
  /\ \A k \in 1..Len(seqEvents) :
       seqEvents[k].eventType = "checkout"
         => context.cartItems = seqEvents[k].eventData.itemCount

\* a checkout, then a failed transaction draw: a browsing event follows
C21_Witness ==
  /\ Len(seqEvents) >= 2
  /\ seqEvents[Len(seqEvents) - 1].eventType = "checkout"
  /\ seqEvents[Len(seqEvents)].eventType = "richpush_click"
  /\ context.cartItems >= 1

\* the outcomes of the five draws a step can make
Draws(eg) ==
  [transaction : generateRandomBoolean(eg.transactionAfterCheckoutProbability),
   checkout : generateRandomBoolean(eg.checkoutAfterViewCartProbability),
   viewCart : generateRandomBoolean(eg.viewCartAfterAddProbability),
   remove : generateRandomBoolean(eg.removeFromCartProbability),
   add : generateRandomBoolean(eg.addToCartProbability)]

\* the rules in their fixed order, for given outcomes of the draws
PriorityRules(ctx, draw) ==
  <<[holds |-> ctx.hasCheckedOut /\ draw.transaction,
     types |-> {"transaction_complete"}],
    [holds |-> ctx.hasCheckedOut, types |-> Range(BROWSING_EVENTS)],
    [holds |-> ctx.hasViewedCart /\ draw.checkout, types |-> {"checkout"}],
    [holds |-> ctx.hasAddedToCart /\ draw.viewCart, types |-> {"view_cart"}],
    [holds |-> ctx.hasAddedToCart /\ draw.remove,
     types |-> {"remove_itemFromCart"}],
    [holds |-> draw.add, types |-> {"add_itemToCart"}],
    [holds |-> TRUE, types |-> Range(BROWSING_EVENTS)]>>

\* the types of the first rule that holds, over all outcomes of the draws
FirstRuleTypes(eg, ctx) ==
  UNION {LET rules == PriorityRules(ctx, draw)
             first == CHOOSE k \in 1..Len(rules) :
                        rules[k].holds /\ \A j \in 1..(k - 1) : ~rules[j].holds
         IN rules[first].types : draw \in Draws(eg)}

\* C22: at every step after the first the event type is one of the first rule
\* that holds, in the fixed order; every type the step can return is such a
\* type, every emitted event was, and whenever a browsing event is possible by
\* that order the step can return one.
C22_FirstMatchingRuleWins ==
  /\ (pc = "loop" /\ 0 < i /\ i < eventCount) =>
       LET returned == determineEventType(config.eventGeneration, context, i)
           byOrder == FirstRuleTypes(config.eventGeneration, context)
       IN /\ returned \subseteq byOrder
          /\ byOrder \ Range(BROWSING_EVENTS) \subseteq returned
          /\ (byOrder \cap Range(BROWSING_EVENTS) # {})
               <=> (returned \cap Range(BROWSING_EVENTS) # {})
  /\ (config.eventGeneration = RemoveWinsEventGeneration /\ Len(seqEvents) >= 2) =>
       \A k \in 3..Len(seqEvents) : seqEvents[k].eventType = "remove_itemFromCart"

\* both the remove draw and the add draw succeed: the removal is emitted
C22_Witness ==
  /\ config.eventGeneration = RemoveWinsEventGeneration
  /\ Len(seqEvents) = MaxSessionEvents
  /\ seqEvents[2].eventType = "add_itemToCart"
  /\ seqEvents[Len(seqEvents)].eventType = "remove_itemFromCart"

\* the positions of seq whose event carries the given sessionId
SessionOf(seq, sessionId) ==
  {k \in 1..Len(seq) : seq[k].eventData.sessionId = sessionId}

\* C23: a session is a contiguous run of events: the events of a user that
\* carry one sessionId are adjacent and are all timestamped from one anchor;
\* with sessionContinuation = 1.0 all events of the user carry one sessionId.
C23_SessionsContiguous ==
  /\ \A a, b \in 1..Len(seqEvents) :
       (a < b /\ b \in SessionOf(seqEvents, seqEvents[a].eventData.sessionId))
         => \A k \in a..b : k \in SessionOf(seqEvents, seqEvents[a].eventData.sessionId)
  /\ \A a \in 1..Len(seqEvents) :
       \E base \in generateRecentDate :
         \A k \in SessionOf(seqEvents, seqEvents[a].eventData.sessionId) :
           \E offset \in OffsetDraws(eventCount) :
             seqEvents[k].timestamp = base + (k - 1) * offset
  /\ config.eventGeneration.sessionContinuationProbability = 100 =>
       \A k \in 1..Len(seqEvents) :
         seqEvents[k].eventData.sessionId = context.sessionId

\* the third event opens a second session with another anchor
C23_Witness ==
  /\ Len(seqEvents) = MaxSessionEvents
  /\ seqEvents[3].eventData.sessionId # seqEvents[2].eventData.sessionId
  /\ seqEvents[2].eventData.sessionId = seqEvents[1].eventData.sessionId
  /\ seqEvents[1].timestamp = Now - Ms(1000)
  /\ seqEvents[3].timestamp < seqEvents[1].timestamp

\* C24: the payload of every remove_itemFromCart event has a quantity of 1
\* or 2.
C24_RemoveQuantityUpToTwo ==
  \A k \in 1..Len(seqEvents) :
    seqEvents[k].eventType = "remove_itemFromCart"
      => seqEvents[k].eventData.quantity \in 1..2

\* the running count of the cart after the events of seq: plus 1 for each
\* add_itemToCart, minus 1 but never below 0 for each remove_itemFromCart
RECURSIVE RunningCartCount(_)
RunningCartCount(seq) ==
  IF seq = <<>> THEN 0
  ELSE LET before == RunningCartCount(SubSeq(seq, 1, Len(seq) - 1))
           last == seq[Len(seq)].eventType
       IN IF last = "add_itemToCart" THEN before + 1
          ELSE IF last = "remove_itemFromCart"
                 THEN (IF before > 0 THEN before - 1 ELSE 0)
          ELSE before

\* C25: the itemCount of every view_cart and checkout payload is the running
\* count of the cart over the earlier events of the sequence, which is the
\* context's cartItems when the event is emitted.
C25_ItemCountIsRunningCount ==
  /\ \A k \in 1..Len(seqEvents) :
       seqEvents[k].eventType \in {"view_cart", "checkout"}
         => seqEvents[k].eventData.itemCount
              = RunningCartCount(SubSeq(seqEvents, 1, k - 1))
  /\ pc = "loop" => context.cartItems = RunningCartCount(seqEvents)

\* two additions, then the cart viewed and checked out with 2 items
C25_Witness ==
  /\ Len(seqEvents) >= 5
  /\ seqEvents[4].eventType = "view_cart"
  /\ seqEvents[4].eventData.itemCount = 2
  /\ seqEvents[5].eventType = "checkout"
  /\ seqEvents[5].eventData.itemCount = 2

\* C26: each event changes only the context fields it owns, so that during a
\* sequence hasAddedToCart is true exactly when an add_itemToCart has been
\* emitted, hasViewedCart exactly when a view_cart has, hasCheckedOut exactly
\* when a checkout has, and cartItems counts additions minus removals
\* (floored at 0); a flag that has become true stays true over every step of
\* the sequence.
C26_EventsOwnTheirFields ==
  /\ [](pc = "loop" =>
          /\ context.hasAddedToCart <=> Contains(seqEvents, "add_itemToCart")
          /\ context.hasViewedCart <=> Contains(seqEvents, "view_cart")
          /\ context.hasCheckedOut <=> Contains(seqEvents, "checkout")
          /\ context.cartItems
               = IF Contains(seqEvents, "remove_itemFromCart")
                   THEN RunningCartCount(seqEvents)
                   ELSE CountOf(seqEvents, "add_itemToCart"))
  /\ [][Len(seqEvents') = Len(seqEvents) + 1 =>
         /\ context.hasAddedToCart => context'.hasAddedToCart
         /\ context.hasViewedCart => context'.hasViewedCart
         /\ context.hasCheckedOut => context'.hasCheckedOut
         /\ seqEvents'[Len(seqEvents')].eventType
              \in {"transaction_complete"} \cup Range(BROWSING_EVENTS)
              => context'.cartItems = context.cartItems]_vars

\* a transaction_complete has been emitted and left flags and cart as they were
C26_Witness ==
  /\ pc = "loop"
  /\ Len(seqEvents) >= 1
  /\ seqEvents[Len(seqEvents)].eventType = "transaction_complete"
  /\ context.hasCheckedOut /\ context.hasViewedCart /\ context.hasAddedToCart
  /\ context.cartItems >= 1

\* C27: no event generated for an anonymous profile or for a synthetic
\* anonymous identity is a checkout or a transaction_complete.
C27_AnonymousNeverTransact ==
  /\ profile.profileType = "anonymous" =>
       \A k \in 1..Len(seqEvents) :
         seqEvents[k].eventType \notin {"checkout", "transaction_complete"}
  /\ \A k \in 1..Len(events) :
       events[k].userId = Undefined =>
         events[k].eventType \notin {"checkout", "transaction_complete"}

\* C28: every event generated under a valid configuration is accepted by
\* validateUserEvent, whichever kind of user it was generated for.
C28_EventsPassValidation ==
  \A k \in 1..Len(seqEvents) : validateUserEvent(seqEvents[k]).isValid

-----------------------------------------------------------------------------
\* eventSequencing.test: the mock generateTestEventSequence

\* the range of the mock's faker.number.int({ min: 10, max: 20 })
MockEventCount == [min |-> 10, max |-> 20]

MOCK_FIRST_EVENTS == <<"page_view", "search">>

MOCK_BROWSING_EVENTS ==
  <<"page_view", "search", "article_view", "video_view", "audio_listen",
    "ad_view", "ad_click", "email_open", "email_click", "richpush_open",
    "richpush_click">>

\* mutant: the mock never draws a transaction after the checkout
MockProbabilities_NoTransaction ==
  [transaction |-> 0, checkout |-> 40, viewCart |-> 60, remove |-> 20,
   add |-> 30]

\* the probabilities written in the mock's rules, in percent
MockProbabilities ==
  [transaction |-> 30, checkout |-> 40, viewCart |-> 60, remove |-> 20,
   add |-> 30]

\* the mock's flags before its first event
MockInitialFlags ==
  [hasAddedToCart |-> FALSE, hasViewedCart |-> FALSE, hasCheckedOut |-> FALSE]

\* the event types one pass of the mock's loop can choose
generateTestEventType(flags, eventIndex) ==
  IF eventIndex = 0 THEN generateRandomElement(MOCK_FIRST_EVENTS)
  ELSE
    Rule(flags.hasCheckedOut, MockProbabilities.transaction,
         {"transaction_complete"},
    IF flags.hasCheckedOut THEN generateRandomElement(MOCK_BROWSING_EVENTS)
    ELSE
    Rule(flags.hasViewedCart, MockProbabilities.checkout,
         {"checkout"},
    Rule(flags.hasAddedToCart, MockProbabilities.viewCart,
         {"view_cart"},
    Rule(flags.hasAddedToCart, MockProbabilities.remove,
         {"remove_itemFromCart"},
    Rule(TRUE, MockProbabilities.add,
         {"add_itemToCart"},
    generateRandomElement(MOCK_BROWSING_EVENTS))))))

\* the flag assignment in the branch that chose eventType
MockFlagsAfter(flags, eventType) ==
  CASE eventType = "checkout" -> [flags EXCEPT !.hasCheckedOut = TRUE]
    [] eventType = "view_cart" -> [flags EXCEPT !.hasViewedCart = TRUE]
    [] eventType = "add_itemToCart" -> [flags EXCEPT !.hasAddedToCart = TRUE]
    [] OTHER -> flags

\* the mock's flags after it has pushed the event types of the list
RECURSIVE MockFlags(_)
MockFlags(types) ==
  IF types = <<>> THEN MockInitialFlags
  ELSE MockFlagsAfter(MockFlags(SubSeq(types, 1, Len(types) - 1)),
                      types[Len(types)])

\* the three flags of a UserContext
ContextFlags(ctx) ==
  [hasAddedToCart |-> ctx.hasAddedToCart, hasViewedCart |-> ctx.hasViewedCart,
   hasCheckedOut |-> ctx.hasCheckedOut]

\* the five rule probabilities are those of DEFAULT_CONFIG
HasDefaultRuleProbabilities(eg) ==
  [eg EXCEPT !.sessionContinuationProbability =
               DEFAULT_EVENT_GENERATION.sessionContinuationProbability]
    = DEFAULT_EVENT_GENERATION

\* C29: under the rule probabilities of the default configuration the mock
\* generateTestEventSequence and the generator produce the same event-type
\* sequences: both draw the length from the same range and the first and the
\* browsing type from the same lists, and after every prefix the generator
\* has emitted the mock, having pushed the same prefix, holds the same flags
\* and can choose exactly the types determineEventType can return.
C29_MockMatchesGenerator ==
  /\ generateRandomInt(MockEventCount.min, MockEventCount.max)
       = generateRandomInt(DEFAULT_EVENT_COUNT_PER_USER.min,
                           DEFAULT_EVENT_COUNT_PER_USER.max)
  /\ Range(MOCK_FIRST_EVENTS) = Range(FIRST_EVENTS)
  /\ Range(MOCK_BROWSING_EVENTS) = Range(BROWSING_EVENTS)
  /\ (pc = "loop" /\ HasDefaultRuleProbabilities(config.eventGeneration)) =>
       /\ MockFlags(EventTypes(seqEvents)) = ContextFlags(context)
       /\ i < eventCount =>
            generateTestEventType(MockFlags(EventTypes(seqEvents)), i)
              = determineEventType(config.eventGeneration, context, i)

\* a default-probability sequence that has checked out and goes on
C29_Witness ==
  /\ pc = "loop"
  /\ HasDefaultRuleProbabilities(config.eventGeneration)
  /\ i < eventCount
  /\ MockFlags(EventTypes(seqEvents)).hasCheckedOut

-----------------------------------------------------------------------------
\* ConfigurationService properties

\* the step builds the default configuration: the file is missing or invalid
BuildsDefaultConfig ==
  (Constructor \/ ReloadConfig) /\ configFile.state # "valid"

\* C30: the service does not modify a configuration it only reads: a step
\* that builds the default configuration leaves the content of DEFAULT_CONFIG
\* as it was, and getEnvironmentConfig() leaves the content of the
\* configuration getConfig() returns as it was.
C30_ReadConfigurationsUnchanged ==
  [][/\ BuildsDefaultConfig =>
          ContentOf(heap', ConfigRef(0)) = ContentOf(heap, ConfigRef(0))
     /\ GetEnvironmentConfig =>
          ContentOf(heap', configService.config)
            = ContentOf(heap, configService.config)]_vars

====
